---------------------------- MODULE Spec2Model ----------------------------
(***************************************************************************)
(* Model of the wavetable mip-map builder (sfizz Wavetables.h/.cpp):       *)
(*   MipmapRange      - frequency <-> mip table index mapping              *)
(*   HarmonicProfile  - spectrum fill of generate (the anti-aliasing gate) *)
(*   WavetableMulti   - storage layout, band loop, padding pass            *)
(*                                                                         *)
(* Numbers.  The code computes in float/double.  The model computes in     *)
(* exact integer fixed point:                                              *)
(*   frequencies      in units of 1/Hz of a hertz (millihertz)             *)
(*   logs and indices in units of 1/FX                                     *)
(*   table positions  in units of 1/PU                                     *)
(*   cutoffs          as reduced fractions <<num, den>>                    *)
(* Floating-point rounding is not modelled; std::log and std::exp are      *)
(* evaluated by series to within a few units of 1/FX.                      *)
(***************************************************************************)
EXTENDS Integers, Sequences, FiniteSets

VARIABLES
    pc,             \* position of the build / kind of run
    audioData,      \* createFromAudioData: the source samples
    amplitude,      \* the amplitude argument
    tableSize,      \* the tableSize argument
    refSampleRate,  \* the refSampleRate argument (millihertz)
    harmonics,      \* TabulatedHarmonicProfile::_harmonics
    multiData,      \* WavetableMulti::_multiData, cells 0 .. size-1
    seqData,        \* _multiData of the same build run in the order of the code
    wm_tableSize,   \* WavetableMulti::_tableSize
    m,              \* band counter of the loop in createForHarmonicProfile
    bandDone,       \* bands whose synthesis step has completed
    cutoffs,        \* per band: the cutoff passed to generate
    specs,          \* per band: the spectrum handed to kiss_fftri
    filled,         \* per band: the bins assigned by the loop of generate
    genWrites,      \* per band: the storage cells written through the span
    fillRow,        \* band counter of the loop in fillExtra
    fillLog,        \* fillExtra: the copies made, as <<band, dst, src>>
    query           \* MipmapRange: the last call and what it returned

vars == <<pc, audioData, amplitude, tableSize, refSampleRate, harmonics,
          multiData, seqData, wm_tableSize, m, bandDone, cutoffs, specs, filled,
          genWrites, fillRow, fillLog, query>>

\* ------------------------------------------------------------------------
\* Fixed-point arithmetic
\* ------------------------------------------------------------------------

Hz == 10^3
FX == 2^26
PU == 2^16

\* <<q, r>> with a*b = q*c + r and 0 <= r < c, computed one hexadecimal digit
\* of b at a time so that no intermediate value exceeds 31*c (machine
\* integers are 32 bits wide); needs 0 < c <= FX
RECURSIVE MulDivRem(_, _, _)
MulDivRem(a, b, c) ==
    IF b = 0 THEN <<0, 0>>
    ELSE LET h  == MulDivRem(a, b \div 16, c)
             d  == b % 16
             r2 == 16 * h[2] + d * (a % c)
         IN  <<16 * h[1] + d * (a \div c) + (r2 \div c), r2 % c>>

MulDiv(a, b, c) == MulDivRem(a, b, c)[1]

\* product of two fixed-point numbers below 2^5, by halves of 13 bits
Mul(x, y) ==
    LET H  == 2^13
        xh == x \div H
        xl == x % H
        yh == y \div H
        yl == y % H
    IN  xh * yh + ((xh * yl + xl * yh + ((xl * yl) \div H)) \div H)

\* x/y > u/v for non-negative x, u and positive y, v
RatGT(x, y, u, v) ==
    LET qr == MulDivRem(x, v, y)
    IN  qr[1] > u \/ (qr[1] = u /\ qr[2] > 0)

RECURSIVE GCD(_, _)
GCD(a, b) == IF b = 0 THEN a ELSE GCD(b, a % b)

Reduce(num, den) == LET g == GCD(num, den) IN <<num \div g, den \div g>>

\* (p[1]/p[2]) / d as a reduced fraction
RatDivInt(p, d) ==
    LET g == GCD(p[1], d) IN Reduce(p[1] \div g, p[2] * (d \div g))

\* z + z^3/3 + z^5/5 + ... for fixed-point 0 <= z <= 1/3
RECURSIVE AtanhSeries(_, _, _)
AtanhSeries(zpow, z2, n) ==
    IF zpow \div n = 0 THEN 0
    ELSE zpow \div n + AtanhSeries(Mul(zpow, z2), z2, n + 2)

Atanh(z) == AtanhSeries(z, Mul(z, z), 1)

LN2 == 2 * Atanh(FX \div 3)

\* e with d * 2^e <= n < d * 2^(e+1), for n >= d > 0
RECURSIVE Log2Floor(_, _)
Log2Floor(n, d) == IF n < 2 * d THEN 0 ELSE 1 + Log2Floor(n, 2 * d)

\* std::log(n/d) in fixed point, for n >= d > 0
Log(n, d) ==
    LET e == Log2Floor(n, d)
        a == d * 2^e
    IN  e * LN2 + 2 * Atanh(MulDiv(n - a, FX, n + a))

\* 1 + r + r^2/2! + ... for fixed-point 0 <= r < ln 2
RECURSIVE ExpSeries(_, _, _)
ExpSeries(term, r, n) ==
    IF term = 0 THEN 0
    ELSE term + ExpSeries(Mul(term, r) \div n, r, n + 1)

\* floor(std::exp(x) * s) for fixed-point x >= 0 and integer s > 0
ExpScaled(x, s) ==
    LET k == x \div LN2
    IN  MulDiv(ExpSeries(FX, x % LN2, 1), s * 2^k, FX)

clamp(x, lo, hi) ==
    LET mn == IF x < hi THEN x ELSE hi
    IN  IF lo < mn THEN mn ELSE lo

Min(a, b) == IF b < a THEN b ELSE a

\* ------------------------------------------------------------------------
\* MipmapRange
\* ------------------------------------------------------------------------

N == 24
F1 == 20 * Hz
FN == 12000 * Hz
\* variants: the end value of the final table taken for a 48 kHz rate, and
\* an end value below the start of the last table
NyquistAt48k == 24000 * Hz
NyquistBelowLastStart == 10000 * Hz

\* table[N] = 22050.0
Nyquist == 22050 * Hz
FrequencyToIndexSize == 1024

\* K = 1/F1 is kept as the divisor F1: K*f is f/F1 and x/K is x*F1
LogB == Log(FN, F1) \div (N - 1)

getExactIndexForFrequency(f) ==
    LET t == IF f < F1 THEN 0 ELSE MulDiv(Log(f, F1), FX, LogB)
    IN  clamp(t, 0, (N - 1) * FX)

FrequencyToIndex ==
    [i \in 0 .. FrequencyToIndexSize - 1 |->
        IF i < FrequencyToIndexSize - 1
        THEN getExactIndexForFrequency(
                 F1 + MulDiv(FN - F1, i, FrequencyToIndexSize - 1))
        ELSE (N - 1) * FX]

IndexToStartFrequency ==
    [t \in 0 .. N |-> IF t < N THEN ExpScaled(t * LogB, F1) ELSE Nyquist]

\* a read of table[i]; outside the table the value is whatever lies there
ReadTable(table, i, junk) == IF i \in DOMAIN table THEN table[i] ELSE junk

\* pos after the clamp, in units of 1/PU
TablePosition(f) ==
    LET span == FN - F1
        size == FrequencyToIndexSize
        pos  == IF f >= F1 THEN MulDiv(f - F1, (size - 1) * PU, span)
                           ELSE 0 - MulDiv(F1 - f, (size - 1) * PU, span)
    IN  clamp(pos, 0, (size - 1) * PU)

\* variant: index2 without the std::min
SecondIndexUnchecked(index1) == index1 + 1

SecondIndex(index1) == Min(index1 + 1, FrequencyToIndexSize - 1)

\* (1 - frac) * a + frac * b, with frac in units of 1/PU
Interpolate(frac, a, b) ==
    LET x == MulDivRem(a, PU - frac, PU)
        y == MulDivRem(b, frac, PU)
    IN  x[1] + y[1] + ((x[2] + y[2]) \div PU)

getIndexForFrequency(f, junk) ==
    LET pos    == TablePosition(f)
        index1 == pos \div PU
        index2 == SecondIndex(index1)
        frac   == pos - index1 * PU
    IN  [pos |-> pos, index1 |-> index1, index2 |-> index2, frac |-> frac,
         value |-> Interpolate(frac,
                               ReadTable(FrequencyToIndex, index1, junk),
                               ReadTable(FrequencyToIndex, index2, junk))]

\* variant: the band index clamped from above only
ClampBandAbove(o) == Min(o, N - 1)

ClampBand(o) == clamp(o, 0, N - 1)

getRangeForIndex(o, junk) ==
    LET c == ClampBand(o)
    IN  [reads        |-> {c, c + 1},
         minFrequency |-> ReadTable(IndexToStartFrequency, c, junk),
         maxFrequency |-> ReadTable(IndexToStartFrequency, c + 1, junk)]

\* static_cast<int> truncates; the index is never negative
getRangeForFrequency(f, junk) ==
    getRangeForIndex(getIndexForFrequency(f, junk).value \div FX, junk)

\* ------------------------------------------------------------------------
\* Queries of MipmapRange
\* ------------------------------------------------------------------------

GridPoints == 48
MaxBandArg == 27

JunkValues == {0 - FX, 30 * FX}

TestFrequencies ==
    {IndexToStartFrequency[t] + d :
        t \in 0 .. N, d \in {0 - 500, 0 - 1, 0, 1, 87, 500}}
    \cup {F1 + MulDiv(FN - F1, j, GridPoints) : j \in 0 .. GridPoints}
    \cup {0 - 1000, 0, 1, 30000 * Hz}

BandArgs == (0 - 4) .. MaxBandArg

NoQuery ==
    [op |-> "none", f |-> 0, o |-> 0, pos |-> 0, index1 |-> 0, index2 |-> 0,
     frac |-> 0, value |-> 0, reads |-> {}, minFrequency |-> 0,
     maxFrequency |-> 0]

Idle ==
    /\ audioData = <<>> /\ amplitude = 0 /\ tableSize = 0
    /\ refSampleRate = 0 /\ harmonics = <<>> /\ multiData = <<>>
    /\ seqData = <<>>
    /\ wm_tableSize = 0 /\ m = 0 /\ bandDone = {} /\ cutoffs = <<>>
    /\ specs = <<>> /\ filled = <<>> /\ genWrites = <<>> /\ fillRow = 0
    /\ fillLog = {}

\* the argument of the call is drawn here: a frequency or a band index
InitMap ==
    /\ pc = "map" /\ Idle
    /\ \/ \E f \in TestFrequencies : query = [NoQuery EXCEPT !.f = f]
       \/ \E o \in BandArgs : query = [NoQuery EXCEPT !.o = o]

buildVars == <<pc, audioData, amplitude, tableSize, refSampleRate, harmonics,
               multiData, seqData, wm_tableSize, m, bandDone, cutoffs, specs, filled,
               genWrites, fillRow, fillLog>>

CallGetIndexForFrequency ==
    \E junk \in JunkValues :
        LET f == query.f
            r == getIndexForFrequency(f, junk)
        IN  /\ query.op = "none"
            /\ query' = [NoQuery EXCEPT !.op = "getIndexForFrequency",
                            !.f = f, !.pos = r.pos, !.index1 = r.index1,
                            !.index2 = r.index2, !.frac = r.frac,
                            !.value = r.value]
            /\ UNCHANGED buildVars

CallGetRangeForIndex ==
    \E junk \in JunkValues :
        LET o == query.o
            r == getRangeForIndex(o, junk)
        IN  /\ query.op = "none"
            /\ query' = [NoQuery EXCEPT !.op = "getRangeForIndex", !.o = o,
                            !.reads = r.reads,
                            !.minFrequency = r.minFrequency,
                            !.maxFrequency = r.maxFrequency]
            /\ UNCHANGED buildVars

CallGetRangeForFrequency ==
    \E junk \in JunkValues :
        LET f == query.f
            i == getIndexForFrequency(f, junk)
            r == getRangeForIndex(i.value \div FX, junk)
        IN  /\ query.op = "none"
            /\ query' = [NoQuery EXCEPT !.op = "getRangeForFrequency",
                            !.f = f, !.o = i.value \div FX,
                            !.value = i.value, !.reads = r.reads,
                            !.minFrequency = r.minFrequency,
                            !.maxFrequency = r.maxFrequency]
            /\ UNCHANGED buildVars

NextMap ==
    \/ CallGetIndexForFrequency
    \/ CallGetRangeForIndex
    \/ CallGetRangeForFrequency

SpecMap == InitMap /\ [][NextMap]_vars

\* ------------------------------------------------------------------------
\* Complex numbers <<re, im>> and the transform primitive (kiss_fftr)
\* ------------------------------------------------------------------------

CZero == <<0, 0>>

CAdd(x, y) == <<x[1] + y[1], x[2] + y[2]>>

CMul(x, y) == <<x[1] * y[1] - x[2] * y[2], x[1] * y[2] + x[2] * y[1]>>

\* i^q
PowerOfI(q) ==
    CASE q % 4 = 0 -> <<1, 0>>
      [] q % 4 = 1 -> <<0, 1>>
      [] q % 4 = 2 -> <<0 - 1, 0>>
      [] q % 4 = 3 -> <<0, 0 - 1>>

\* exp(sign * 2 pi i * j / n); exact for the sizes n that divide 4, which are
\* the even sizes the model's bounds admit
Twiddle(n, j, sign) == PowerOfI(sign * j * (4 \div n))

\* t[lo] + ... + t[hi]
RECURSIVE CSum(_, _, _)
CSum(t, lo, hi) == IF lo > hi THEN CZero ELSE CAdd(t[lo], CSum(t, lo + 1, hi))

\* kiss_fftr_alloc: NULL for an odd size or when memory is exhausted
kiss_fftr_alloc(nfft, oom) == nfft % 2 = 0 /\ ~oom

\* forward real transform: bins 0 .. nfft/2 of sum x[n] exp(-2 pi i kn/nfft)
kiss_fftr(timedata) ==
    LET nfft == Len(timedata)
        Bin(k) ==
            CSum([n \in 0 .. nfft - 1 |->
                     CMul(<<timedata[n + 1], 0>>, Twiddle(nfft, k * n, 0 - 1))],
                 0, nfft - 1)
    IN  [k \in 1 .. nfft \div 2 + 1 |-> Bin(k - 1)]

\* inverse real transform of bins 0 .. nfft/2 (a function on 0 .. nfft/2):
\* the unscaled sum over the Hermitian-symmetric spectrum; the imaginary
\* parts of bin 0 and of bin nfft/2 do not contribute
kiss_fftri(freqdata, nfft) ==
    LET Sample(n) ==
            freqdata[0][1]
            + freqdata[nfft \div 2][1] * PowerOfI(2 * n)[1]
            + 2 * CSum([k \in 1 .. nfft \div 2 - 1 |->
                           CMul(freqdata[k], Twiddle(nfft, k * n, 1))],
                       1, nfft \div 2 - 1)[1]
    IN  [n \in 0 .. nfft - 1 |-> Sample(n)]

\* ------------------------------------------------------------------------
\* HarmonicProfile
\* ------------------------------------------------------------------------

\* variant: an index past the end wraps around instead of yielding zero
getHarmonicWrapped(h, index) == h[(index % Len(h)) + 1]

\* TabulatedHarmonicProfile::getHarmonic; _harmonics[index] is h[index + 1]
getHarmonic(h, index) == IF index >= Len(h) THEN CZero ELSE h[index + 1]

\* k * harmonic with k = std::polar(amplitude * 0.5, pi/2)
ScaleBin(amp, harmonic) ==
    <<(0 - amp * harmonic[2]) \div 2, (amp * harmonic[1]) \div 2>>

\* variant: the gate written with >=, which drops the harmonic at the cutoff
AboveCutoffOrEqual(index, size, cutoff) ==
    MulDivRem(index, cutoff[2], size)[1] >= cutoff[1]

\* index * (1.0 / size) > cutoff
AboveCutoff(index, size, cutoff) == RatGT(index, size, cutoff[1], cutoff[2])

\* the index at which the loop of generate stops: the first index above the
\* cutoff, or size/2 + 1 when the loop runs to its end
BreakIndex(size, cutoff) ==
    LET above == {index \in 1 .. size \div 2 : AboveCutoff(index, size, cutoff)}
    IN  IF above = {} THEN size \div 2 + 1
        ELSE CHOOSE index \in above : \A j \in above : index <= j

\* the loop of generate: bins, zero-initialised, and the set of bins assigned
FilledBins(size, cutoff) == 1 .. BreakIndex(size, cutoff) - 1

GenerateSpectrum(h, amp, cutoff, size) ==
    LET bins == FilledBins(size, cutoff)
    IN  [index \in 0 .. size \div 2 |->
            IF index \in bins THEN ScaleBin(amp, getHarmonic(h, index))
            ELSE CZero]

\* ------------------------------------------------------------------------
\* WavetableMulti
\* ------------------------------------------------------------------------

tableExtra == 4
numTables == N

\* variant: rows laid out without their padding
RowStrideNoExtra(ts) == ts

RowStride(ts) == ts + 2 * tableExtra

\* variant: the pointer to the row's first cell, padding included
getTablePointerNoPad(index, ts) == index * RowStride(ts)

\* offset into _multiData of the beginning of table `index`
getTablePointer(index, ts) == index * RowStride(ts) + tableExtra

\* allocateStorage: resize value-initialises the cells
AllocatedStorage(ts) == [c \in 0 .. RowStride(ts) * numTables - 1 |-> 0]

\* cutoff = (0.5 * refSampleRate / tableSize) / freq
\* (the loop passes 0 <= band < N, for which nothing outside the table is read)
BandCutoff(band, ts, rate) ==
    LET freq == getRangeForIndex(band, 0).maxFrequency
    IN  RatDivInt(Reduce(rate, 2 * ts), freq)

\* the cells of the span handed to generate for `band`
SpanCells(band, ts) ==
    {getTablePointer(band, ts) + i : i \in 0 .. ts - 1}

\* the transform writes table.data()[0 .. size-1]
WriteSpan(data, ptr, samples) ==
    [c \in DOMAIN data |->
        IF c - ptr \in DOMAIN samples THEN samples[c - ptr] ELSE data[c]]

Load(data, cell, junk) == IF cell \in DOMAIN data THEN data[cell] ELSE junk

Store(data, cell, value) ==
    IF cell \in DOMAIN data THEN [data EXCEPT ![cell] = value] ELSE data

RightFillStart(beg, end) == beg

\* variant: the left fill starts one cell too far, on the first padding cell
LeftFillStartAtEnd(beg, end) == end

LeftFillStart(beg, end) == end - 1

\* st = [data, log]; the "fill right" loop of fillExtra
RECURSIVE FillRight(_, _, _, _, _, _, _, _)
FillRight(st, band, beg, end, src, dst, i, junk) ==
    IF i >= tableExtra THEN st
    ELSE FillRight([data |-> Store(st.data, dst, Load(st.data, src, junk)),
                    log  |-> st.log \cup {<<band, dst, src>>}],
                   band, beg, end,
                   IF src + 1 # end THEN src + 1 ELSE beg,
                   dst + 1, i + 1, junk)

\* the "fill left" loop of fillExtra
RECURSIVE FillLeft(_, _, _, _, _, _, _, _)
FillLeft(st, band, beg, end, src, dst, i, junk) ==
    IF i >= tableExtra THEN st
    ELSE FillLeft([data |-> Store(st.data, dst, Load(st.data, src, junk)),
                   log  |-> st.log \cup {<<band, dst, src>>}],
                  band, beg, end,
                  IF src # beg THEN src - 1 ELSE end - 1,
                  dst - 1, i + 1, junk)

\* one pass of the loop body of fillExtra, for `band`
FillRow(st, band, ts, junk) ==
    LET beg   == getTablePointer(band, ts)
        end   == beg + ts
        right == FillRight(st, band, beg, end,
                           RightFillStart(beg, end), end, 0, junk)
    IN  FillLeft(right, band, beg, end,
                 LeftFillStart(beg, end), beg - 1, 0, junk)

\* spec[i] *= k with k = std::polar(2.0 / fftSize, -pi/2)
ScaleForward(fftSize, bin) ==
    <<(2 * bin[2]) \div fftSize, (0 - 2 * bin[1]) \div fftSize>>

\* the spectrum createFromAudioData wraps in a TabulatedHarmonicProfile
MeasuredSpectrum(samples) ==
    LET raw == kiss_fftr(samples)
    IN  [k \in 1 .. Len(raw) |-> ScaleForward(Len(samples), raw[k])]

\* f with f[key] = value added or replaced
Put(f, key, value) ==
    [x \in DOMAIN f \cup {key} |-> IF x = key THEN value ELSE f[x]]

\* ------------------------------------------------------------------------
\* The build: createFromAudioData -> createForHarmonicProfile
\* ------------------------------------------------------------------------

MaxTableSize == 4
NumWorkers == 2

Waveforms ==
    {<<8>>, <<8, 0 - 8>>, <<8, 0>>, <<0, 8, 0 - 8>>, <<0, 8, 0, 0 - 8>>,
     <<8, 8, 0 - 8, 0 - 8>>, <<8, 16, 0 - 8, 0>>}

Amplitudes == {1, 2}

TableSizes == 1 .. MaxTableSize

RefSampleRates == {44100 * Hz, 88200 * Hz, 100 * Hz}

JunkSamples == {0 - 99, 99}

Init ==
    /\ pc = "start"
    /\ audioData \in Waveforms
    /\ amplitude \in Amplitudes
    /\ tableSize \in TableSizes
    /\ refSampleRate \in RefSampleRates
    /\ harmonics = <<>>
    /\ multiData = <<>>
    /\ seqData = <<>>
    /\ wm_tableSize = 0
    /\ m = 0
    /\ bandDone = {}
    /\ cutoffs = <<>>
    /\ specs = <<>>
    /\ filled = <<>>
    /\ genWrites = <<>>
    /\ fillRow = 0
    /\ fillLog = {}
    /\ query = NoQuery

\* throw std::bad_alloc(): the build is abandoned and nothing is returned
Abort ==
    /\ pc' = "failed"
    /\ multiData' = <<>>
    /\ seqData' = <<>>
    /\ wm_tableSize' = 0
    /\ m' = 0
    /\ bandDone' = {}
    /\ cutoffs' = <<>>
    /\ specs' = <<>>
    /\ filled' = <<>>
    /\ genWrites' = <<>>
    /\ UNCHANGED <<audioData, amplitude, tableSize, refSampleRate, harmonics,
                   fillRow, fillLog, query>>

\* createFromAudioData up to the band loop of createForHarmonicProfile:
\* forward transform, scaling, allocateStorage
CreateFromAudioData ==
    /\ pc = "start"
    /\ \/ /\ \E oom \in BOOLEAN : kiss_fftr_alloc(Len(audioData), oom)
          /\ harmonics' = MeasuredSpectrum(audioData)
          /\ multiData' = AllocatedStorage(tableSize)
          /\ seqData' = AllocatedStorage(tableSize)
          /\ wm_tableSize' = tableSize
          /\ pc' = "generate"
          /\ UNCHANGED <<audioData, amplitude, tableSize, refSampleRate,
                         m, bandDone, cutoffs, specs, filled, genWrites,
                         fillRow, fillLog, query>>
       \/ /\ \E oom \in BOOLEAN : ~kiss_fftr_alloc(Len(audioData), oom)
          /\ Abort

\* the storage after the loop body of createForHarmonicProfile for `band`
BandWritten(data, band) ==
    LET cutoff == BandCutoff(band, tableSize, refSampleRate)
        spec   == GenerateSpectrum(harmonics, amplitude, cutoff, tableSize)
    IN  WriteSpan(data, getTablePointer(band, wm_tableSize),
                  kiss_fftri(spec, tableSize))

\* one pass of the loop body of createForHarmonicProfile for `band`:
\* range, cutoff, span, generate (spectrum fill and inverse transform);
\* the reference run takes its bands in the order 0, 1, 2, ...
SynthesizeBand(band) ==
    LET cutoff == BandCutoff(band, tableSize, refSampleRate)
        spec   == GenerateSpectrum(harmonics, amplitude, cutoff, tableSize)
    IN  /\ multiData' = BandWritten(multiData, band)
        /\ seqData' = BandWritten(seqData, Cardinality(bandDone))
        /\ bandDone' = bandDone \cup {band}
        /\ cutoffs' = Put(cutoffs, band, cutoff)
        /\ specs' = Put(specs, band, spec)
        /\ filled' = Put(filled, band, FilledBins(tableSize, cutoff))
        /\ genWrites' = Put(genWrites, band, SpanCells(band, tableSize))
        /\ UNCHANGED <<audioData, amplitude, tableSize, refSampleRate,
                       harmonics, wm_tableSize, fillRow, fillLog, query>>

\* the band loop, in the order of the code; after the last band the
\* padding pass begins
GenerateBand ==
    /\ pc = "generate"
    /\ m < numTables
    /\ \/ /\ \E oom \in BOOLEAN : kiss_fftr_alloc(tableSize, oom)
          /\ SynthesizeBand(m)
          /\ m' = m + 1
          /\ pc' = IF m + 1 < numTables THEN "generate" ELSE "fill"
       \/ /\ \E oom \in BOOLEAN : ~kiss_fftr_alloc(tableSize, oom)
          /\ Abort

\* the loop of fillExtra, one row at a time; after the last row the
\* WavetableMulti is returned
FillExtraRow ==
    /\ pc = "fill"
    /\ fillRow < numTables
    /\ \E junk \in JunkSamples :
          LET r == FillRow([data |-> multiData, log |-> fillLog], fillRow,
                           wm_tableSize, junk)
          IN  /\ multiData' = r.data
              /\ fillLog' = r.log
              /\ seqData' = FillRow([data |-> seqData, log |-> {}], fillRow,
                                    wm_tableSize, junk).data
    /\ fillRow' = fillRow + 1
    /\ pc' = IF fillRow + 1 < numTables THEN "fill" ELSE "done"
    /\ UNCHANGED <<audioData, amplitude, tableSize, refSampleRate, harmonics,
                   wm_tableSize, m, bandDone, cutoffs, specs, filled,
                   genWrites, query>>

Next == CreateFromAudioData \/ GenerateBand \/ FillExtraRow

Spec == Init /\ [][Next]_vars

\* ------------------------------------------------------------------------
\* The band loop run by worker threads (fork-join): worker w takes the bands
\* congruent to w, in ascending order; the workers interleave freely and the
\* padding pass follows the join
\* ------------------------------------------------------------------------

AllBands == 0 .. numTables - 1

WorkerBands(w) == {b \in AllBands : b % NumWorkers = w}

ParGenerateBand(w) ==
    LET todo == WorkerBands(w) \ bandDone
        band == CHOOSE b \in todo : \A c \in todo : b <= c
    IN  /\ pc = "generate"
        /\ todo # {}
        /\ \/ /\ \E oom \in BOOLEAN : kiss_fftr_alloc(tableSize, oom)
              /\ SynthesizeBand(band)
              /\ m' = m
              /\ pc' = IF bandDone \cup {band} = AllBands
                       THEN "fill" ELSE "generate"
           \/ /\ \E oom \in BOOLEAN : ~kiss_fftr_alloc(tableSize, oom)
              /\ Abort

NextPar ==
    \/ CreateFromAudioData
    \/ \E w \in 0 .. NumWorkers - 1 : ParGenerateBand(w)
    \/ FillExtraRow

SpecPar == Init /\ [][NextPar]_vars

\* ------------------------------------------------------------------------
\* The cutoff gate at the default table size: the band loop of
\* createForHarmonicProfile with a given profile, followed up to the spectrum
\* that generate hands to the inverse transform (the storage is left out)
\* ------------------------------------------------------------------------

DefaultTableSize == 2048
DefaultSampleRate == 44100 * Hz

\* the spectrum of a 512-sample sine cycle: only the fundamental
SineProfile == [k \in 1 .. 257 |-> IF k = 2 THEN <<0 - 8, 0>> ELSE CZero]

\* every harmonic present, up to the Nyquist bin of the default table
SawProfile == [k \in 1 .. 1025 |-> IF k = 1 THEN CZero ELSE <<0, 8>>]

\* odd harmonics only
SquareProfile ==
    [k \in 1 .. 1025 |-> IF k % 2 = 0 THEN <<8, 0>> ELSE CZero]

Profiles ==
    {SineProfile, SawProfile, SquareProfile,
     MeasuredSpectrum(<<8, 16, 0 - 8, 0>>)}

InitGate ==
    /\ pc = "cutoff"
    /\ audioData = <<>>
    /\ amplitude \in Amplitudes
    /\ tableSize = DefaultTableSize
    /\ refSampleRate \in RefSampleRates
    /\ harmonics \in Profiles
    /\ multiData = <<>>
    /\ seqData = <<>>
    /\ wm_tableSize = 0
    /\ m = 0
    /\ bandDone = {}
    /\ cutoffs = <<>>
    /\ specs = <<>>
    /\ filled = <<>>
    /\ genWrites = <<>>
    /\ fillRow = 0
    /\ fillLog = {}
    /\ query = NoQuery

CutoffBand ==
    /\ pc = "cutoff"
    /\ m < numTables
    /\ LET cutoff == BandCutoff(m, tableSize, refSampleRate)
       IN  /\ cutoffs' = Put(cutoffs, m, cutoff)
           /\ specs' = Put(specs, m, GenerateSpectrum(harmonics, amplitude,
                                                     cutoff, tableSize))
           /\ filled' = Put(filled, m, FilledBins(tableSize, cutoff))
    /\ bandDone' = bandDone \cup {m}
    /\ m' = m + 1
    /\ UNCHANGED <<pc, audioData, amplitude, tableSize, refSampleRate,
                   harmonics, multiData, seqData, wm_tableSize, genWrites,
                   fillRow, fillLog, query>>

NextGate == CutoffBand

SpecGate == InitGate /\ [][NextGate]_vars

\* ------------------------------------------------------------------------
\* Properties
\* ------------------------------------------------------------------------

\* a/b <= c/d for a, c >= 0 and b, d > 0, by the continued-fraction expansion
RECURSIVE RatLE(_, _, _, _)
RatLE(a, b, c, d) ==
    IF a \div b # c \div d THEN a \div b < c \div d
    ELSE IF a % b = 0 THEN TRUE
    ELSE IF c % d = 0 THEN FALSE
    ELSE RatLE(d, c % d, b, a % b)

\* the first cell of the playable region of `band`, as the layout states it
RowBegin(band) == band * (wm_tableSize + 2 * tableExtra) + tableExtra

\* C1: in every WavetableMulti returned by the build, for every band row and
\* every k in [0, tableExtra), the sample at row offset tableSize+k equals the
\* sample at offset k mod tableSize, and the sample at row offset -1-k equals
\* the sample at offset (tableSize-1-k) mod tableSize, the offsets being
\* relative to getTablePointer(band).
C1_WrapPadding ==
    pc = "done" =>
        \A band \in AllBands, k \in 0 .. tableExtra - 1 :
            LET row == getTablePointer(band, wm_tableSize)
                ts  == wm_tableSize
            IN  /\ multiData[row + ts + k] = multiData[row + (k % ts)]
                /\ multiData[row - 1 - k] = multiData[row + ((ts - 1 - k) % ts)]

\* a finished build whose table is shorter than the padding, so that the
\* copies wrap, and with a row whose samples differ
C1_Witness ==
    /\ pc = "done"
    /\ wm_tableSize < tableExtra
    /\ \E band \in AllBands :
          multiData[RowBegin(band)] # multiData[RowBegin(band) + 1]

\* C2: in generate, the spectrum handed to the inverse transform has bin 0
\* equal to zero, and every bin index in [1, size/2] holds the scaled value of
\* getHarmonic(index) exactly when index/size <= cutoff and zero when
\* index/size > cutoff: the harmonic at the cutoff is included, and none
\* above it is, whatever the profile holds there.
C2_CutoffGate ==
    \A band \in bandDone :
        LET c == cutoffs[band]
        IN  /\ specs[band][0] = CZero
            /\ DOMAIN specs[band] = 0 .. tableSize \div 2
            /\ \A index \in 1 .. tableSize \div 2 :
                  IF index * c[2] <= c[1] * tableSize
                  THEN /\ index \in filled[band]
                       /\ specs[band][index]
                            = ScaleBin(amplitude, getHarmonic(harmonics, index))
                  ELSE /\ index \notin filled[band]
                       /\ specs[band][index] = CZero

\* a band in which one harmonic sits exactly at the cutoff and is kept, and
\* a harmonic the profile holds lies above the cutoff and is left out
C2_Witness ==
    \E band \in bandDone :
        \E i, j \in 1 .. tableSize \div 2 :
            /\ i * cutoffs[band][2] = cutoffs[band][1] * tableSize
            /\ specs[band][i] # CZero
            /\ j * cutoffs[band][2] > cutoffs[band][1] * tableSize
            /\ getHarmonic(harmonics, j) # CZero
            /\ specs[band][j] = CZero

\* C3: for every f in [F1, FN], the band obtained by rounding down the
\* interpolated index contains f:
\* getRangeForIndex(floor(getIndexForFrequency(f))).minFrequency <= f
\*   <= getRangeForIndex(floor(getIndexForFrequency(f))).maxFrequency.
C3_SelfConsistent ==
    (query.op = "getRangeForFrequency" /\ F1 <= query.f /\ query.f <= FN)
        => (query.minFrequency <= query.f /\ query.f <= query.maxFrequency)

\* C4: for every frequency, below F1 and above FN included,
\* getIndexForFrequency returns a value in [0, N-1]: the table position is
\* clamped to [0, 1023], index1 and index2 = min(index1+1, 1023) stay inside
\* FrequencyToIndex, every tabulated value lies in [0, N-1], and the result
\* is a convex combination of the two tabulated values.
C4_IndexInRange ==
    query.op = "getIndexForFrequency" =>
        LET last == FrequencyToIndexSize - 1
            a    == FrequencyToIndex[query.index1]
            b    == FrequencyToIndex[query.index2]
        IN  /\ 0 <= query.pos /\ query.pos <= last * PU
            /\ query.index1 \in 0 .. last
            /\ query.index2 \in 0 .. last
            /\ query.index2 = IF query.index1 < last THEN query.index1 + 1
                              ELSE last
            /\ 0 <= query.frac /\ query.frac < PU
            /\ \A i \in 0 .. last :
                  0 <= FrequencyToIndex[i] /\ FrequencyToIndex[i] <= (N - 1) * FX
            /\ 0 <= query.value /\ query.value <= (N - 1) * FX
            /\ (IF a < b THEN a ELSE b) <= query.value
            /\ query.value <= (IF a < b THEN b ELSE a)

\* a frequency above FN, answered from the last table entry
C4_Witness ==
    /\ query.op = "getIndexForFrequency"
    /\ query.f > FN
    /\ query.index1 = FrequencyToIndexSize - 1
    /\ query.index2 = FrequencyToIndexSize - 1
    /\ query.value = (N - 1) * FX

\* C5: for every integer o, getRangeForIndex(o) returns
\* minFrequency = IndexToStartFrequency[c] and
\* maxFrequency = IndexToStartFrequency[c+1] with c = clamp(o, 0, N-1); it
\* reads nothing outside IndexToStartFrequency[0..N]; every o < 0 yields the
\* range of band 0 and every o > N-1 that of band N-1, whose maxFrequency is
\* 22050 Hz.
C5_RangeClamped ==
    query.op = "getRangeForIndex" =>
        LET c == IF query.o < 0 THEN 0
                 ELSE IF query.o > N - 1 THEN N - 1 ELSE query.o
        IN  /\ query.reads \subseteq 0 .. N
            /\ query.minFrequency = IndexToStartFrequency[c]
            /\ query.maxFrequency = IndexToStartFrequency[c + 1]
            /\ query.o < 0 => query.minFrequency = F1
            /\ query.o > N - 1 => query.maxFrequency = 22050 * Hz

\* a band index past the last band, answered with the last band's range
C5_Witness ==
    /\ query.op = "getRangeForIndex"
    /\ query.o > N - 1
    /\ query.minFrequency = IndexToStartFrequency[N - 1]
    /\ query.maxFrequency = 22050 * Hz

\* C6: with tableSize = 2048 and refSampleRate = 44100, in every band the
\* fundamental passes the cutoff gate, 1/tableSize <= cutoff, so a source
\* whose only non-zero harmonic is the fundamental yields in every band a
\* spectrum holding exactly that harmonic: no band is silent, the last one
\* (maxFrequency 22050) included.
C6_FundamentalKept ==
    (tableSize = DefaultTableSize /\ refSampleRate = DefaultSampleRate) =>
        \A band \in bandDone :
            /\ (cutoffs[band][2] + tableSize - 1) \div tableSize
                  <= cutoffs[band][1]
            /\ 1 \in filled[band]
            /\ harmonics = SineProfile =>
                  /\ specs[band][1] # CZero
                  /\ \A index \in DOMAIN specs[band] :
                        index # 1 => specs[band][index] = CZero

\* the default build of the sine profile with all bands synthesized, the
\* last band's cutoff being exactly 1/tableSize
C6_Witness ==
    /\ tableSize = DefaultTableSize
    /\ refSampleRate = DefaultSampleRate
    /\ harmonics = SineProfile
    /\ bandDone = AllBands
    /\ cutoffs[N - 1] = <<1, DefaultTableSize>>
    /\ specs[N - 1][1] # CZero

\* C7: within one build the per-band cutoff is non-increasing in the band
\* index, so the harmonics retained in band m+1 are a subset of those
\* retained in band m, for every m in [0, N-2].
C7_CutoffMonotone ==
    \A band \in bandDone :
        (band + 1) \in bandDone =>
            /\ RatLE(cutoffs[band + 1][1], cutoffs[band + 1][2],
                     cutoffs[band][1], cutoffs[band][2])
            /\ filled[band + 1] \subseteq filled[band]

\* a finished band loop in which a higher band has dropped harmonics that
\* the profile holds and the first band retains
C7_Witness ==
    /\ bandDone = AllBands
    /\ harmonics = SquareProfile
    /\ \E band \in 0 .. N - 2 :
          \E index \in filled[band] \ filled[band + 1] :
              getHarmonic(harmonics, index) # CZero

\* C8: the measured profile holds (source length / 2) + 1 coefficients;
\* getHarmonic yields zero for every index at or past that length and the
\* stored coefficient otherwise, so when tableSize/2 exceeds the last index
\* of the source spectrum, generate leaves every bin beyond it zero.
C8_ZeroBeyondSpectrum ==
    pc \in {"generate", "fill", "done"} =>
        /\ Len(harmonics) = Len(audioData) \div 2 + 1
        /\ \A band \in bandDone :
              \A index \in 0 .. tableSize \div 2 :
                  /\ index >= Len(harmonics) => specs[band][index] = CZero
                  /\ (index < Len(harmonics) /\ index \in filled[band]) =>
                        specs[band][index]
                          = ScaleBin(amplitude, harmonics[index + 1])

\* a bin past the end of the source spectrum that passed the gate
C8_Witness ==
    \E band \in bandDone :
        \E index \in filled[band] :
            /\ index >= Len(harmonics)
            /\ specs[band][index] = CZero
            /\ \E k \in 1 .. Len(harmonics) : harmonics[k] # CZero

\* C9: the synthesis step of band m writes only the tableSize cells
\* [m*(tableSize+2*tableExtra)+tableExtra,
\*  m*(tableSize+2*tableExtra)+tableExtra+tableSize); these ranges are
\* pairwise disjoint and lie inside the buffer of
\* (tableSize+2*tableExtra)*N cells; and the band syntheses run in any
\* interleaving, followed by the padding pass, leave the same storage as the
\* loop m = 0..N-1 does.
C9_BandsIndependent ==
    /\ \A band \in bandDone :
          LET lo == band * (tableSize + 2 * tableExtra) + tableExtra
          IN  /\ genWrites[band] = lo .. lo + tableSize - 1
              /\ genWrites[band]
                    \subseteq 0 .. (tableSize + 2 * tableExtra) * N - 1
              /\ genWrites[band] \subseteq DOMAIN multiData
              /\ \A other \in bandDone :
                    other # band => genWrites[band] \cap genWrites[other] = {}
    /\ pc \in {"fill", "done"} => multiData = seqData

\* bands synthesized out of the order of the code: the storage differs from
\* that of the loop at the same step
C9_Witness ==
    /\ pc = "generate"
    /\ 1 \in bandDone
    /\ 0 \notin bandDone
    /\ multiData # seqData

\* C10: for each row, fillExtra writes exactly the tableExtra cells before
\* and the tableExtra cells after the row's playable region, inside the
\* buffer and inside that row; it reads only the row's playable region; and
\* it changes no other cell, so the playable samples of every row are as
\* they were.
C10_FillExtraFrame ==
    [][pc = "fill" =>
        LET new    == fillLog' \ fillLog
            beg    == RowBegin(fillRow)
            ts     == wm_tableSize
            writes == {t[2] : t \in new}
        IN  /\ writes = (beg - tableExtra .. beg - 1)
                          \cup (beg + ts .. beg + ts + tableExtra - 1)
            /\ writes \subseteq DOMAIN multiData
            /\ \A t \in new : t[1] = fillRow /\ t[3] \in beg .. beg + ts - 1
            /\ \A cell \in DOMAIN multiData :
                  cell \notin writes => multiData'[cell] = multiData[cell]
            /\ DOMAIN multiData' = DOMAIN multiData]_vars

\* a finished padding pass over rows shorter than the padding: one sample
\* was copied to several padding cells
C10_Witness ==
    /\ pc = "done"
    /\ wm_tableSize < tableExtra
    /\ \E t, u \in fillLog :
          /\ t[1] = u[1] /\ t[3] = u[3] /\ t[2] < u[2]
          /\ u[2] < RowBegin(t[1])
          /\ multiData[t[2]] # 0

=============================================================================
